---------------------------- MODULE Spec2Model ----------------------------
(* Model of the read-modify-write Store: Singleton callers, the per-key    *)
(* kmutex shards, the shared batch / done channel and the flush loop.      *)
(* Every critical section of Store.mu (and of a kmutex's own lock) is one   *)
(* atomic action; a goroutine's position between them is its pc.           *)
EXTENDS Integers, Sequences, FiniteSets, TLC

(***************************************************************************)
(* Bounds of the model.                                                    *)
(***************************************************************************)
\* number of Singleton calls, numbered in the order they take Store.mu at
\* line 161
NumCalls == 2
\* most writes one mutator appends to the batch
MaxWrites == 1

\* const mCount = 100: number of kmutex shards
mCount == 100

Procs == 1..NumCalls

\* keys the callers pass: "", "a" and "ad" ("a" and "ad" hash into one shard)
Keys == {<< >>, <<97>>, <<97, 100>>}

(***************************************************************************)
(* hash/fnv New64a, Write, Sum64 on 64-bit words kept as 8 little-endian   *)
(* bytes, so the arithmetic modulo 2^64 is exact.                          *)
(***************************************************************************)
\* the one element of a singleton set
The(S) == CHOOSE x \in S : TRUE

Bit(a, i) == (a \div (2 ^ i)) % 2

\* u ^ v on bytes
XorByte(u, v) ==
    LET x == [i \in 0..7 |-> (Bit(u, i) + Bit(v, i)) % 2]
    IN  x[0] + 2 * x[1] + 4 * x[2] + 8 * x[3] + 16 * x[4] + 32 * x[5]
          + 64 * x[6] + 128 * x[7]

\* offset basis 0xcbf29ce484222325
FnvOffset64 == <<37, 35, 34, 132, 228, 156, 242, 203>>
\* prime 0x00000100000001b3
FnvPrime64 == <<179, 1, 0, 0, 0, 1, 0, 0>>

\* byte column k of the product h * prime, before the carries
Column(h, k) ==
    LET term(i) == h[i] * FnvPrime64[k - i + 1]
    IN  term(k)
          + (IF k >= 2 THEN term(k - 1) ELSE 0)
          + (IF k >= 3 THEN term(k - 2) ELSE 0)
          + (IF k >= 4 THEN term(k - 3) ELSE 0)
          + (IF k >= 5 THEN term(k - 4) ELSE 0)
          + (IF k >= 6 THEN term(k - 5) ELSE 0)
          + (IF k >= 7 THEN term(k - 6) ELSE 0)
          + (IF k >= 8 THEN term(k - 7) ELSE 0)

\* h * prime modulo 2^64
FnvMul(h) ==
    LET T[k \in 1..8] ==
            Column(h, k) + (IF k = 1 THEN 0 ELSE T[k - 1] \div 256)
    IN  [k \in 1..8 |-> T[k] % 256]

\* h ^= c; h *= prime
FnvStep(h, c) ==
    The({FnvMul(x) : x \in {[h EXCEPT ![1] = XorByte(h[1], c)]}})

RECURSIVE FnvWrite(_, _, _)
\* FnvStep for the bytes i.. of data
FnvWrite(h, data, i) ==
    IF i > Len(data) THEN h
    ELSE The({FnvWrite(m, data, i + 1) : m \in {FnvStep(h, data[i])}})

Sum64(data) == FnvWrite(FnvOffset64, data, 1)

\* kid % m, folding the bytes from the most significant one
ModWord(kid, m) ==
    LET R[i \in 0..8] ==
            IF i = 0 THEN 0 ELSE (R[i - 1] * 256 + kid[9 - i]) % m
    IN  R[8]

\* kid % mCount
Shard(kid) == ModWord(kid, mCount)

\* Sum64 of every key and kid % mCount of every kid, tabulated (@@ makes
\* the table an explicit one)
KidOf == [k \in Keys |-> Sum64(k)] @@ << >>
ShardOf == [kid \in {KidOf[k] : k \in Keys} |-> Shard(kid)] @@ << >>


(***************************************************************************)
(* State.                                                                  *)
(***************************************************************************)
VARIABLES
    kmu,       \* Store.kmu: shard -> kmutex.s, the kids held in that shard
    count,     \* Store.count: requests admitted since the last rotation
    pending,   \* Store.pending: requests in flight
    stopped,   \* Store.stopped
    b,         \* Store.b: the writes staged in the current batch
    db,        \* writes the store holds after a sync commit
    commits,   \* number of b.Commit(pebble.Sync) calls issued
    ctxDone,   \* ctx.Done() is closed
    panicked,  \* Flush panicked: the process is gone
    flpc,      \* position of the FlushLoop goroutine
    fl,        \* locals of the Flush call in progress
    pc,        \* position of every Singleton caller
    key,       \* key argument of every caller
    wrote,     \* number of writes the caller's mutator has appended
    fret,      \* what the caller's mutator f() returned
    wdone,     \* the caller's local done (NoChan outside lines 183-185)
    result,    \* what Singleton returned
    admitted,  \* the calls that passed the stopped test of line 162
    ran        \* the calls that took a key lock, with their keys, in the
               \* order of their kmutex.Lock (line 144)

vars == <<kmu, count, pending, stopped, b, db, commits,
          ctxDone, panicked, flpc, fl, pc, key, wrote, fret, wdone, result,
          admitted, ran>>

storeVars == <<count, pending, stopped, b>>
flushVars == <<flpc, fl>>
procVars  == <<pc, key, wrote, fret, wdone, result, admitted, ran>>

Shards == 0..(mCount - 1)

\* A batch is the set of writes staged in it.  FlushLoop is the only caller
\* of Flush, so at most two channels are open: Store.done and the local done
\* of the Flush in progress.  A caller's local done names its channel by
\* where the channel is now: it is Store.done, or the one the running Flush
\* took, or closed (a receive from a closed channel returns at once,
\* whichever channel it is).
CurChan == "Store.done"
FlushChan == "Flush.done"
ClosedChan == "closed"
NoChan == "nil"

\* the write number i of caller p's mutator; LogMarker is LogData("f")
Write(p, i) == <<p, i>>
LogMarker == <<0, 0>>
WritesOf(p) == {Write(p, i) : i \in 1..wrote[p]}

\* values of result
None == "none"
Nil == "nil"
ErrStopped == "DB stopped"
ErrMutator == "mutator error"

NoFlush == [pending |-> 0, b |-> {}]

Init ==
    /\ kmu = [s \in Shards |-> {}]
    /\ count = 0
    /\ pending = 0
    /\ stopped = FALSE
    /\ b = {}
    /\ db = {}
    /\ commits = 0
    /\ ctxDone = FALSE
    /\ panicked = FALSE
    /\ flpc = "select"
    /\ fl = NoFlush
    /\ pc = [p \in Procs |-> "idle"]
    /\ key = [p \in Procs |-> << >>]
    /\ wrote = [p \in Procs |-> 0]
    /\ fret = [p \in Procs |-> None]
    /\ wdone = [p \in Procs |-> NoChan]
    /\ result = [p \in Procs |-> None]
    /\ admitted = {}
    /\ ran = << >>

(***************************************************************************)
(* kmutex                                                                  *)
(***************************************************************************)
locked(km, kid) == kid \in km

\* kmutex.Lock without the wait loop of lines 216-218
kmLockNoWait(s, kid) ==
    kmu' = [kmu EXCEPT ![s] = @ \cup {kid}]

\* kmutex.Lock on the kmutex of shard s: wait while the kid is held, then
\* mark it held
kmLock(s, kid) ==
    /\ ~locked(kmu[s], kid)
    /\ kmu' = [kmu EXCEPT ![s] = @ \cup {kid}]

\* kmutex.Unlock on the kmutex of shard s: delete the kid (the broadcast
\* wakes the waiters of kmLock)
kmUnlock(s, kid) ==
    kmu' = [kmu EXCEPT ![s] = @ \ {kid}]

(***************************************************************************)
(* Store.Singleton, one action per critical section or blocking point      *)
(***************************************************************************)
\* call p is the next one to take Store.mu at line 161
Arrives(p) ==
    /\ pc[p] = "idle"
    /\ \A q \in Procs : q < p => pc[q] # "idle"

\* lines 161-165: the call finds stopped set
Rejected(p, k) ==
    /\ ~panicked
    /\ Arrives(p)
    /\ stopped
    /\ pc' = [pc EXCEPT ![p] = "returned"]
    /\ result' = [result EXCEPT ![p] = ErrStopped]
    /\ UNCHANGED <<kmu, storeVars, db, commits, ctxDone, panicked,
                   flushVars, key, wrote, fret, wdone, admitted, ran>>

\* Singleton without the stopped test of lines 162-165
AdmittedWhileStopped(p, k) ==
    /\ ~panicked
    /\ Arrives(p)
    /\ pending' = pending + 1
    /\ count' = count + 1
    /\ pc' = [pc EXCEPT ![p] = "lock"]
    /\ key' = [key EXCEPT ![p] = k]
    /\ admitted' = admitted \cup {p}
    /\ UNCHANGED <<kmu, stopped, b, db, commits, ctxDone, panicked,
                   flushVars, wrote, fret, wdone, result, ran>>

\* Singleton without the pending++ of line 166
AdmittedNoPending(p, k) ==
    /\ ~panicked
    /\ Arrives(p)
    /\ ~stopped
    /\ count' = count + 1
    /\ pc' = [pc EXCEPT ![p] = "lock"]
    /\ key' = [key EXCEPT ![p] = k]
    /\ admitted' = admitted \cup {p}
    /\ UNCHANGED <<kmu, pending, stopped, b, db, commits, ctxDone, panicked,
                   flushVars, wrote, fret, wdone, result, ran>>

\* lines 161-168: the call is admitted
Admitted(p, k) ==
    /\ ~panicked
    /\ Arrives(p)
    /\ ~stopped
    /\ pending' = pending + 1
    /\ count' = count + 1
    /\ pc' = [pc EXCEPT ![p] = "lock"]
    /\ key' = [key EXCEPT ![p] = k]
    /\ admitted' = admitted \cup {p}
    /\ UNCHANGED <<kmu, stopped, b, db, commits, ctxDone, panicked,
                   flushVars, wrote, fret, wdone, result, ran>>

\* singletonUpdate lines 140-146: take the key's lock unless the key is empty
KeyLock(p) ==
    /\ ~panicked
    /\ pc[p] = "lock"
    /\ IF Len(key[p]) > 0
         THEN kmLock(ShardOf[KidOf[key[p]]], KidOf[key[p]])
         ELSE UNCHANGED kmu
    /\ pc' = [pc EXCEPT ![p] = "run"]
    /\ ran' = IF Len(key[p]) > 0 THEN Append(ran, <<p, key[p]>>) ELSE ran
    /\ UNCHANGED <<storeVars, db, commits, ctxDone, panicked,
                   flushVars, key, wrote, fret, wdone, result, admitted>>

\* f(): the mutator appends one write to the batch that is current now
MutatorAppend(p) ==
    /\ ~panicked
    /\ pc[p] = "run"
    /\ wrote[p] < MaxWrites
    /\ wrote' = [wrote EXCEPT ![p] = @ + 1]
    /\ b' = b \cup {Write(p, wrote[p] + 1)}
    /\ UNCHANGED <<kmu, count, pending, stopped, db, commits, ctxDone, panicked,
                   flushVars, pc, key, fret, wdone, result, admitted, ran>>

\* Singleton without the early return of lines 177-179: a failed call waits
\* for a flush like a successful one
MutatorReturnAlwaysWaits(p, err) ==
    /\ ~panicked
    /\ pc[p] = "run"
    /\ IF Len(key[p]) > 0
         THEN kmUnlock(ShardOf[KidOf[key[p]]], KidOf[key[p]])
         ELSE UNCHANGED kmu
    /\ fret' = [fret EXCEPT ![p] = IF err THEN ErrMutator ELSE Nil]
    /\ pc' = [pc EXCEPT ![p] = "snapshot"]
    /\ UNCHANGED <<storeVars, db, commits, ctxDone, panicked,
                   flushVars, key, wrote, wdone, result, admitted, ran>>

\* singletonUpdate with the Unlock of line 146 on the error path only
MutatorReturnUnlocksOnError(p, err) ==
    /\ ~panicked
    /\ pc[p] = "run"
    /\ IF Len(key[p]) > 0 /\ err
         THEN kmUnlock(ShardOf[KidOf[key[p]]], KidOf[key[p]])
         ELSE UNCHANGED kmu
    /\ fret' = [fret EXCEPT ![p] = IF err THEN ErrMutator ELSE Nil]
    /\ pc' = [pc EXCEPT ![p] = IF err THEN "deferErr" ELSE "snapshot"]
    /\ UNCHANGED <<storeVars, db, commits, ctxDone, panicked,
                   flushVars, key, wrote, wdone, result, admitted, ran>>

\* lines 145-147 and 176-179: f() returns nil or an error, the deferred
\* Unlock runs, and an error goes straight to the deferred decrement
MutatorReturn(p, err) ==
    /\ ~panicked
    /\ pc[p] = "run"
    /\ IF Len(key[p]) > 0
         THEN kmUnlock(ShardOf[KidOf[key[p]]], KidOf[key[p]])
         ELSE UNCHANGED kmu
    /\ fret' = [fret EXCEPT ![p] = IF err THEN ErrMutator ELSE Nil]
    /\ pc' = [pc EXCEPT ![p] = IF err THEN "deferErr" ELSE "snapshot"]
    /\ UNCHANGED <<storeVars, db, commits, ctxDone, panicked,
                   flushVars, key, wrote, wdone, result, admitted, ran>>

\* lines 182-184: done := p.done
Snapshot(p) ==
    /\ ~panicked
    /\ pc[p] = "snapshot"
    /\ wdone' = [wdone EXCEPT ![p] = CurChan]
    /\ pc' = [pc EXCEPT ![p] = "wait"]
    /\ UNCHANGED <<kmu, storeVars, db, commits, ctxDone, panicked,
                   flushVars, key, wrote, fret, result, admitted, ran>>

\* Singleton with a receive that does not block (line 185)
WaitDoesNotBlock(p) ==
    /\ ~panicked
    /\ pc[p] = "wait"
    /\ wdone' = [wdone EXCEPT ![p] = NoChan]
    /\ pc' = [pc EXCEPT ![p] = "deferNil"]
    /\ UNCHANGED <<kmu, storeVars, db, commits, ctxDone, panicked,
                   flushVars, key, wrote, fret, result, admitted, ran>>

\* line 185: <-done
Wait(p) ==
    /\ ~panicked
    /\ pc[p] = "wait"
    /\ wdone[p] = ClosedChan
    /\ wdone' = [wdone EXCEPT ![p] = NoChan]
    /\ pc' = [pc EXCEPT ![p] = "deferNil"]
    /\ UNCHANGED <<kmu, storeVars, db, commits, ctxDone, panicked,
                   flushVars, key, wrote, fret, result, admitted, ran>>

\* the decrement of line 172 placed after the wait instead of deferred: the
\* error return skips it
DeferredOnlyOnSuccess(p) ==
    /\ ~panicked
    /\ pc[p] \in {"deferNil", "deferErr"}
    /\ pending' = IF pc[p] = "deferErr" THEN pending ELSE pending - 1
    /\ pc' = [pc EXCEPT ![p] = "returned"]
    /\ result' = [result EXCEPT ![p] =
                     IF pc[p] = "deferErr" THEN ErrMutator ELSE Nil]
    /\ key' = [key EXCEPT ![p] = << >>]
    /\ UNCHANGED <<kmu, count, stopped, b, db, commits,
                   ctxDone, panicked, flushVars, wrote, fret, wdone, admitted,
                   ran>>

\* lines 170-174, the deferred decrement, and the return
Deferred(p) ==
    /\ ~panicked
    /\ pc[p] \in {"deferNil", "deferErr"}
    /\ pending' = pending - 1
    /\ pc' = [pc EXCEPT ![p] = "returned"]
    /\ result' = [result EXCEPT ![p] =
                     IF pc[p] = "deferErr" THEN ErrMutator ELSE Nil]
    /\ key' = [key EXCEPT ![p] = << >>]
    /\ UNCHANGED <<kmu, count, stopped, b, db, commits,
                   ctxDone, panicked, flushVars, wrote, fret, wdone, admitted,
                   ran>>

(***************************************************************************)
(* Store.Flush and Store.FlushLoop                                         *)
(***************************************************************************)
\* db.NewBatch()
NewBatch == {}

\* Flush with line 87 testing count >= 0: every rotation commits
RotateAlwaysCommits ==
    /\ fl' = [pending |-> pending, b |-> b]
    /\ count' = 0
    /\ b' = NewBatch
    /\ wdone' = [p \in Procs |->
                    IF wdone[p] = CurChan THEN FlushChan ELSE wdone[p]]
    /\ flpc' = "log"
    /\ UNCHANGED <<pending, stopped>>

\* Flush without the p.count = 0 of line 79
RotateKeepsCount ==
    /\ fl' = [pending |-> pending, b |-> b]
    /\ count' = count
    /\ b' = NewBatch
    /\ wdone' = [p \in Procs |->
                    IF wdone[p] = CurChan THEN FlushChan ELSE wdone[p]]
    /\ flpc' = IF count > 0 THEN "log" ELSE "close"
    /\ UNCHANGED <<pending, stopped>>

\* Flush without line 83: the batch it took stays the current one
RotateKeepsBatch ==
    /\ fl' = [pending |-> pending, b |-> b]
    /\ count' = 0
    /\ b' = b
    /\ wdone' = [p \in Procs |->
                    IF wdone[p] = CurChan THEN FlushChan ELSE wdone[p]]
    /\ flpc' = IF count > 0 THEN "log" ELSE "close"
    /\ UNCHANGED <<pending, stopped>>

\* lines 77-85 of Flush: take count, done, pending and the batch, install a
\* fresh batch and channel; then the test of line 87.  What was Store.done is
\* now the local done of this Flush, for every caller that holds it.
Rotate ==
    /\ fl' = [pending |-> pending, b |-> b]
    /\ count' = 0
    /\ b' = NewBatch
    /\ wdone' = [p \in Procs |->
                    IF wdone[p] = CurChan THEN FlushChan ELSE wdone[p]]
    /\ flpc' = IF count > 0 THEN "log" ELSE "close"
    /\ UNCHANGED <<pending, stopped>>

\* FlushLoop lines 108-111: ctx is done, set stopped under the lock
FlushLoopStop ==
    /\ ~panicked
    /\ flpc = "select"
    /\ ctxDone
    /\ stopped' = TRUE
    /\ flpc' = "drain"
    /\ UNCHANGED <<kmu, count, pending, b, db, commits,
                   ctxDone, panicked, fl, procVars>>

\* FlushLoop lines 118-119: the default case calls Flush
FlushLoopDefault ==
    /\ ~panicked
    /\ flpc = "select"
    /\ ~ctxDone
    /\ Rotate
    /\ UNCHANGED <<kmu, db, commits, ctxDone, panicked, pc, key, wrote, fret,
                   result, admitted, ran>>

\* FlushLoop lines 112-113: the drain loop calls Flush
FlushLoopDrain ==
    /\ ~panicked
    /\ flpc = "drain"
    /\ Rotate
    /\ UNCHANGED <<kmu, db, commits, ctxDone, panicked, pc, key, wrote, fret,
                   result, admitted, ran>>

\* Flush line 88: b.LogData returns nil
FlushLogData ==
    /\ ~panicked
    /\ flpc = "log"
    /\ fl' = [fl EXCEPT !.b = @ \cup {LogMarker}]
    /\ flpc' = "commit"
    /\ UNCHANGED <<kmu, storeVars, db, commits, ctxDone, panicked, procVars>>

\* Flush lines 89-91: b.LogData returns an error
FlushLogDataPanic ==
    /\ ~panicked
    /\ flpc = "log"
    /\ panicked' = TRUE
    /\ UNCHANGED <<kmu, storeVars, db, commits, ctxDone, flushVars,
                   procVars>>

\* Flush line 92: b.Commit(pebble.Sync) returns nil, the batch is on disk
FlushCommit ==
    /\ ~panicked
    /\ flpc = "commit"
    /\ commits' = commits + 1
    /\ db' = db \cup (fl.b \ {LogMarker})
    /\ flpc' = "close"
    /\ UNCHANGED <<kmu, storeVars, ctxDone, panicked, fl, procVars>>

\* Flush with the error of b.Commit dropped: no panic at lines 93-95
FlushCommitErrorIgnored ==
    /\ ~panicked
    /\ flpc = "commit"
    /\ commits' = commits + 1
    /\ flpc' = "close"
    /\ UNCHANGED <<kmu, storeVars, db, ctxDone, panicked, fl, procVars>>

\* Flush lines 92-95: b.Commit(pebble.Sync) returns an error
FlushCommitPanic ==
    /\ ~panicked
    /\ flpc = "commit"
    /\ commits' = commits + 1
    /\ panicked' = TRUE
    /\ UNCHANGED <<kmu, storeVars, db, ctxDone, flushVars, procVars>>

\* FlushLoop with a single drain Flush: line 114 does not test pending
FlushCloseOneDrain ==
    /\ ~panicked
    /\ flpc = "close"
    /\ wdone' = [p \in Procs |->
                    IF wdone[p] = FlushChan THEN ClosedChan ELSE wdone[p]]
    /\ flpc' = IF stopped THEN "returned" ELSE "select"
    /\ fl' = NoFlush
    /\ UNCHANGED <<kmu, storeVars, db, commits, ctxDone, panicked, pc, key,
                   wrote, fret, result, admitted, ran>>

\* Flush without the close(done) of line 97
FlushCloseNoClose ==
    /\ ~panicked
    /\ flpc = "close"
    /\ flpc' = IF stopped
                 THEN (IF fl.pending = 0 THEN "returned" ELSE "drain")
                 ELSE "select"
    /\ fl' = NoFlush
    /\ UNCHANGED <<kmu, storeVars, db, commits, ctxDone, panicked, procVars>>

\* Flush returning p.pending as it is at line 98 instead of the value read
\* at line 81
FlushCloseReadsPending ==
    /\ ~panicked
    /\ flpc = "close"
    /\ wdone' = [p \in Procs |->
                    IF wdone[p] = FlushChan THEN ClosedChan ELSE wdone[p]]
    /\ flpc' = IF stopped
                 THEN (IF pending = 0 THEN "returned" ELSE "drain")
                 ELSE "select"
    /\ fl' = NoFlush
    /\ UNCHANGED <<kmu, storeVars, db, commits, ctxDone, panicked, pc, key,
                   wrote, fret, result, admitted, ran>>

\* Flush lines 97-98, close(done) and return pending, then the caller's test
\* of the result (FlushLoop lines 114-116 and 120-123).  The callers that
\* hold this Flush's done now hold a closed channel; the local batch goes out
\* of scope.
FlushClose ==
    /\ ~panicked
    /\ flpc = "close"
    /\ wdone' = [p \in Procs |->
                    IF wdone[p] = FlushChan THEN ClosedChan ELSE wdone[p]]
    /\ flpc' = IF stopped
                 THEN (IF fl.pending = 0 THEN "returned" ELSE "drain")
                 ELSE "select"
    /\ fl' = NoFlush
    /\ UNCHANGED <<kmu, storeVars, db, commits, ctxDone, panicked, pc, key,
                   wrote, fret, result, admitted, ran>>

\* signal.NotifyContext: os.Interrupt cancels ctx
Cancel ==
    /\ ~panicked
    /\ ~ctxDone
    /\ ctxDone' = TRUE
    /\ UNCHANGED <<kmu, storeVars, db, commits, panicked, flushVars,
                   procVars>>

Next ==
    \/ \E p \in Procs, k \in Keys : Rejected(p, k)
    \/ \E p \in Procs, k \in Keys : Admitted(p, k)
    \/ \E p \in Procs : KeyLock(p)
    \/ \E p \in Procs : MutatorAppend(p)
    \/ \E p \in Procs, err \in BOOLEAN : MutatorReturn(p, err)
    \/ \E p \in Procs : Snapshot(p)
    \/ \E p \in Procs : Wait(p)
    \/ \E p \in Procs : Deferred(p)
    \/ FlushLoopStop
    \/ FlushLoopDefault
    \/ FlushLoopDrain
    \/ FlushLogData
    \/ FlushLogDataPanic
    \/ FlushCommit
    \/ FlushCommitPanic
    \/ FlushClose
    \/ Cancel

Spec == Init /\ [][Next]_vars

\* a step of caller p once it is admitted; a mutator returns
CallerStep(p) ==
    \/ KeyLock(p)
    \/ \E err \in BOOLEAN : MutatorReturn(p, err)
    \/ Snapshot(p)
    \/ Wait(p)
    \/ Deferred(p)

\* a step of the FlushLoop goroutine while the store reports no error
FlushLoopStep ==
    \/ FlushLoopStop
    \/ FlushLoopDefault
    \/ FlushLoopDrain
    \/ FlushLogData
    \/ FlushCommit
    \/ FlushClose

\* The goroutines are scheduled fairly and a mutator returns; callers need
\* not arrive and the interrupt need not come.
Fairness ==
    /\ WF_vars(FlushLoopStep)
    /\ \A p \in Procs : WF_vars(CallerStep(p))

LiveSpec == Init /\ [][Next]_vars /\ Fairness

(***************************************************************************)
(* Properties                                                              *)
(***************************************************************************)
\* callers between the admission of lines 166-167 and the deferred decrement
InFlight == {p \in Procs : pc[p] \in {"lock", "run", "snapshot", "wait",
                                      "deferNil", "deferErr"}}

\* callers inside f() with a key lock taken
Holders == {p \in Procs : pc[p] = "run" /\ Len(key[p]) > 0}

\* C1: whenever Singleton has returned nil, every write its mutator appended
\* is in a batch that Flush has sync-committed.
DurableOnSuccess ==
    \A p \in Procs : result[p] = Nil => WritesOf(p) \subseteq db

\* C2: two calls with the same non-empty key never run their mutators at the
\* same time, and each kmutex shard holds exactly the kids of the callers
\* inside f(), every kid for one caller only.
PerKeyMutualExclusion ==
    /\ \A p, q \in Holders : key[p] = key[q] => p = q
    /\ \A p, q \in Holders : KidOf[key[p]] = KidOf[key[q]] => p = q
    /\ \A s \in Shards :
          kmu[s] = {KidOf[key[p]] : p \in {q \in Holders :
                                             ShardOf[KidOf[key[q]]] = s}}

\* C2 witness: one caller is inside f() under a key another caller has
\* already finished f() under, and a third of the same key may be waiting.
SameKeySerialized ==
    \E p, q \in Procs :
        /\ p # q
        /\ key[p] = key[q]
        /\ Len(key[p]) > 0
        /\ pc[p] = "run"
        /\ pc[q] \in {"snapshot", "wait"}

\* C8: pending is never negative and equals the number of calls that passed
\* the stopped test and have not returned, whichever way they return; so it
\* is 0 exactly when no update is in flight.
PendingAccounting ==
    /\ pending >= 0
    /\ pending = Cardinality(InFlight)
    /\ (pending = 0) <=> (InFlight = {})

\* C8 witness: one call has returned the mutator's error, another is still
\* waiting for its flush, and pending counts the second only.
PendingAfterErrorReturn ==
    \E p, q \in Procs :
        /\ result[p] = ErrMutator
        /\ pc[q] = "wait"
        /\ pending = 1

\* C10: the sync commits issued so far, the one the running Flush is about
\* to issue and the calls counted for the next one never exceed the calls
\* admitted so far.
CoalescingBound ==
    /\ commits <= Cardinality(admitted)
    /\ commits + count
          + (IF flpc = "log" \/ (flpc = "commit" /\ ~panicked) THEN 1 ELSE 0)
          <= Cardinality(admitted)

\* C10 witness: two admitted calls have both returned nil after one commit.
TwoUpdatesOneCommit ==
    /\ commits = 1
    /\ Cardinality({p \in Procs : result[p] = Nil /\ wrote[p] > 0}) >= 2
    /\ \A p \in Procs : result[p] = Nil => WritesOf(p) \subseteq db

\* C1 code path: a call returns nil although a write of its mutator was
\* staged in a batch that Flush retired without a commit.
ReturnedNilWriteDropped ==
    \E p \in Procs :
        /\ result[p] = Nil
        /\ ~(WritesOf(p) \subseteq (db \cup b \cup fl.b))

\* C3: a call that takes Store.mu while stopped is set returns "DB stopped"
\* and leaves pending, count, the batch, the channels and the key locks as
\* they were; its mutator never runs, so it never appends a write.
RejectedAfterShutdown ==
    /\ [][\A p \in Procs :
             (pc[p] = "idle" /\ stopped /\ pc'[p] # "idle") =>
                 /\ pc'[p] = "returned"
                 /\ result'[p] = ErrStopped
                 /\ UNCHANGED <<pending, count, b, kmu, wdone, fl, flpc>>
                 /\ fret'[p] = None
                 /\ wrote'[p] = 0]_vars
    /\ [](\A p \in Procs :
             result[p] = ErrStopped =>
                 /\ p \notin admitted
                 /\ fret[p] = None
                 /\ wrote[p] = 0)

\* C3 witness: a call was rejected while an earlier call is still inside its
\* mutator.
RejectedWhileDraining ==
    \E p, q \in Procs :
        /\ result[p] = ErrStopped
        /\ pc[q] = "run"
        /\ stopped

\* C4: when FlushLoop has returned, stopped is set, pending is 0, no admitted
\* call is running, locked out or waiting, and every admitted call has
\* returned what its mutator returned: nil for a mutator that succeeded,
\* never "DB stopped".
ShutdownDrains ==
    flpc = "returned" =>
        /\ stopped
        /\ pending = 0
        /\ InFlight = {}
        /\ \A p \in admitted :
              /\ pc[p] = "returned"
              /\ fret[p] # None
              /\ result[p] = fret[p]

\* C4 witness: FlushLoop has returned after a call was turned away, and an
\* admitted call with a write has returned nil.
DrainedWithSuccess ==
    /\ flpc = "returned"
    /\ \E p \in admitted : result[p] = Nil /\ wrote[p] > 0
    /\ \E q \in Procs : result[q] = ErrStopped

\* C5 as stated: once ctx is done, FlushLoop eventually sets stopped and
\* eventually returns, in every fair run with returning mutators.
ShutdownAlwaysReturns ==
    /\ ctxDone ~> stopped
    /\ ctxDone ~> (flpc = "returned")

\* C5: once ctx is done, FlushLoop sets stopped and returns unless a store
\* error has ended the process with a panic first; it returns only out of a
\* Flush that returned pending = 0 with stopped set, and once it has returned
\* the engine stays stopped with pending 0.
ShutdownTerminates ==
    /\ ctxDone ~> (stopped \/ panicked)
    /\ ctxDone ~> (flpc = "returned" \/ panicked)
    /\ [][(flpc # "returned" /\ flpc' = "returned") =>
             (flpc = "close" /\ fl.pending = 0 /\ stopped)]_vars
    /\ [][flpc = "returned" =>
             (flpc' = "returned" /\ stopped' /\ pending' = 0)]_vars

\* C5 witness: FlushLoop has returned after draining every call of the run.
DrainedAllCalls ==
    /\ flpc = "returned"
    /\ ctxDone
    /\ admitted = Procs
    /\ \E p \in Procs : result[p] = ErrMutator

\* C6: a call whose mutator returned an error never snapshots or waits on a
\* channel: it holds no key lock, decrements pending by exactly one and
\* returns that error.
MutatorFailurePath ==
    /\ [](\A p \in Procs :
             fret[p] = ErrMutator =>
                 /\ pc[p] \in {"deferErr", "returned"}
                 /\ wdone[p] = NoChan
                 /\ p \notin Holders
                 /\ (pc[p] = "returned" => result[p] = ErrMutator))
    /\ [][\A p \in Procs :
             (pc[p] = "deferErr" /\ pc'[p] # "deferErr") =>
                 /\ pc'[p] = "returned"
                 /\ result'[p] = ErrMutator
                 /\ pending' = pending - 1]_vars
    /\ [](\A s \in Shards :
             kmu[s] \subseteq {KidOf[key[p]] : p \in Holders})

\* C6 witness: a call's mutator failed under a key, and another call has
\* since taken that key's lock and is running.
KeyUsableAfterFailure ==
    \E p, q \in Procs :
        /\ pc[p] = "deferErr"
        /\ pc[q] = "run"
        /\ Len(key[p]) > 0
        /\ key[q] = key[p]

\* C7: the writes a mutator appended before it returned an error are never
\* lost: each is on disk or still staged in a batch Flush will commit.
PartialWritesFlushed ==
    \A p \in Procs :
        fret[p] = ErrMutator => WritesOf(p) \subseteq (db \cup b \cup fl.b)

\* C9: a call with the empty key is never held up at the key lock (while the
\* process lives), and it is woken for a nil return only with its writes on
\* disk.
EmptyKeyBypass ==
    /\ \A p \in Procs :
          (pc[p] = "lock" /\ Len(key[p]) = 0 /\ ~panicked) =>
              ENABLED KeyLock(p)
    /\ \A p \in Procs :
          (pc[p] = "deferNil" /\ Len(key[p]) = 0) => WritesOf(p) \subseteq db

\* C9: the lock-free part alone: a call with the empty key is never held up
\* at the key lock and never appears in a kmutex.
EmptyKeyTakesNoLock ==
    /\ \A p \in Procs :
          (pc[p] = "lock" /\ Len(key[p]) = 0 /\ ~panicked) =>
              ENABLED KeyLock(p)
    /\ \A p \in Procs :
          (pc[p] = "run" /\ Len(key[p]) = 0) => p \notin Holders

\* C9: two mutators of empty-key calls run at the same time while a key
\* lock could be held by nobody.
TwoEmptyKeyMutatorsRun ==
    \E p, q \in Procs :
        /\ p # q
        /\ pc[p] = "run" /\ pc[q] = "run"
        /\ Len(key[p]) = 0 /\ Len(key[q]) = 0

\* the step of lines 77-85: Flush takes the batch and the channel
RotationStep == flpc \in {"select", "drain"} /\ flpc' \in {"log", "close"}

\* the step of lines 97-98: Flush closes the channel it took and returns
CloseStep == flpc = "close" /\ flpc' # "close"

\* C11: a call whose mutator returned nil eventually returns nil while the
\* flush loop keeps taking steps (no store error ends it); a caller that holds
\* Store.done is taken by the first rotation after its snapshot and released
\* by the close of that same Flush, before any other rotation.
NoWaiterStarved ==
    /\ \A p \in Procs : (fret[p] = Nil) ~> (result[p] = Nil \/ panicked)
    /\ [][\A p \in Procs :
             (wdone[p] = CurChan /\ RotationStep) => wdone'[p] = FlushChan]_vars
    /\ [][\A p \in Procs :
             (wdone[p] = FlushChan /\ CloseStep) => wdone'[p] = ClosedChan]_vars
    /\ [](\A p \in Procs :
             /\ wdone[p] = FlushChan => flpc \in {"log", "commit", "close"}
             /\ wdone[p] # NoChan => pc[p] = "wait")

\* C11 witness: one call has been released by a Flush and is about to return
\* nil while another still waits on Store.done.
WaiterReleased ==
    \E p, q \in Procs :
        /\ pc[p] = "deferNil"
        /\ fret[p] = Nil
        /\ wdone[q] = CurChan

ReadZeroCount == flpc = "close" /\ LogMarker \notin fl.b

\* C13: when Flush read count = 0 at its rotation, no call holds the channel
\* that Flush took and is about to close.
NoWaitersOnZeroCount ==
    ReadZeroCount => \A p \in Procs : wdone[p] # FlushChan

\* C14: when Flush read count = 0 at its rotation the batch it took is empty,
\* so every batch that holds a write of a mutator is sync-committed before
\* its Flush closes the channel.
FlushNeverDiscardsWrites ==
    /\ ReadZeroCount => fl.b = {}
    /\ flpc = "close" => (fl.b \ {LogMarker}) \subseteq db

\* C15: a channel is closed only by the close step of the Flush that took
\* it, one close per rotation, and it is closed once that Flush has
\* completed; a Flush that read count > 0 reaches its close only through
\* LogData and a Commit that put its batch on disk; after a store error no
\* step is taken, so the channel that Flush took stays open.
CloseAfterCommitOnce ==
    /\ [][\A p \in Procs :
             (wdone[p] # ClosedChan /\ wdone'[p] = ClosedChan) =>
                 (CloseStep /\ wdone[p] = FlushChan)]_vars
    /\ [][(flpc # "close" /\ flpc' = "close") =>
             (RotationStep \/ flpc = "commit")]_vars
    /\ [][CloseStep => flpc' \in {"select", "drain", "returned"}]_vars
    /\ [][flpc = "log" => flpc' \in {"log", "commit"}]_vars
    /\ [][(flpc = "commit" /\ flpc' # "commit") =>
             /\ flpc' = "close"
             /\ LogMarker \in fl.b
             /\ commits' = commits + 1
             /\ db' = db \cup (fl.b \ {LogMarker})]_vars
    /\ [][panicked => UNCHANGED vars]_vars
    /\ [](flpc \in {"select", "drain", "returned"} =>
             \A p \in Procs : wdone[p] # FlushChan)
    /\ []((flpc = "close" /\ LogMarker \in fl.b) =>
             ((fl.b \ {LogMarker}) \subseteq db /\ commits >= 1))
    /\ [](panicked => flpc \in {"log", "commit"})

\* C15 witness: a caller was released by a close that followed the commit
\* of its write, and a store error has since ended a later Flush with a
\* caller left on the channel that Flush took.
ClosedAfterCommitThenError ==
    \E p, q \in Procs :
        /\ pc[p] \in {"deferNil", "returned"}
        /\ fret[p] = Nil
        /\ WritesOf(p) # {}
        /\ WritesOf(p) \subseteq db
        /\ panicked
        /\ wdone[q] = FlushChan

\* C16: a Flush that reads count = 0 goes from its rotation straight to the
\* close: neither step touches the store (db and commits unchanged, no
\* LogData record), the rotation installs a fresh batch and moves every
\* holder of Store.done to the channel it took, the close releases them, and
\* FlushLoop tests the pending read at the rotation.
IdleFlushIsNoOp ==
    /\ [][(RotationStep /\ count = 0) =>
             /\ flpc' = "close"
             /\ b' = NewBatch
             /\ fl' = [pending |-> pending, b |-> b]
             /\ LogMarker \notin fl'.b
             /\ db' = db /\ commits' = commits
             /\ \A p \in Procs :
                   /\ wdone[p] = CurChan => wdone'[p] = FlushChan
                   /\ wdone'[p] # CurChan]_vars
    /\ [][(ReadZeroCount /\ CloseStep) =>
             /\ db' = db /\ commits' = commits
             /\ \A p \in Procs :
                   wdone[p] = FlushChan => wdone'[p] = ClosedChan
             /\ flpc' = IF stopped
                          THEN (IF fl.pending = 0 THEN "returned" ELSE "drain")
                          ELSE "select"]_vars
    /\ [][ReadZeroCount => (ReadZeroCount' \/ CloseStep)]_vars

\* C16 witness: a drain Flush read count = 0 and pending = 1, and the last
\* call has returned since, so pending is 0 when the Flush returns 1.
IdleFlushReturnsStalePending ==
    /\ ReadZeroCount
    /\ stopped
    /\ fl.pending = 1
    /\ pending = 0

\* the step of lines 161-168 that admits a call
AdmissionStep == admitted' # admitted

\* C17: one step of Flush takes the batch and the channel together, installs
\* a fresh batch and channel and resets count; no other step replaces the
\* batch or moves a caller off Store.done; count is 0 after a rotation, one
\* more after every admission and changed by no other step, so it is the
\* number of calls admitted since the latest rotation.
AtomicRotation ==
    /\ [][RotationStep =>
             /\ count' = 0
             /\ fl' = [pending |-> pending, b |-> b]
             /\ b' = NewBatch
             /\ admitted' = admitted
             /\ \A p \in Procs :
                   /\ wdone[p] = CurChan => wdone'[p] = FlushChan
                   /\ wdone'[p] # CurChan]_vars
    /\ [][AdmissionStep =>
             /\ Cardinality(admitted') = Cardinality(admitted) + 1
             /\ count' = count + 1
             /\ b' = b
             /\ wdone' = wdone]_vars
    /\ [][(~RotationStep /\ ~AdmissionStep) => count' = count]_vars
    /\ [][(~RotationStep) =>
             /\ b \subseteq b'
             /\ \A p \in Procs : wdone[p] = CurChan => wdone'[p] = CurChan
             /\ \A p \in Procs : wdone'[p] = FlushChan => wdone[p] = FlushChan
           ]_vars
    /\ [](count <= Cardinality(admitted))

\* C17 witness: one call was admitted before the rotation of the running
\* Flush and one after it: count is 1 with two calls admitted.
CountSinceRotation ==
    /\ flpc \in {"log", "commit", "close"}
    /\ Cardinality(admitted) = 2
    /\ count = 1
    /\ fl.pending = 1

\* a step inside a critical section of Store.mu (lines 77-85, 109-111,
\* 161-168, 171-173, 182-184): it writes count, pending or stopped, rotates,
\* or reads Store.done
MuStep ==
    \/ count' # count
    \/ pending' # pending
    \/ stopped' # stopped
    \/ RotationStep
    \/ \E p \in Procs : wdone[p] = NoChan /\ wdone'[p] = CurChan
    \/ \E p \in Procs : pc[p] = "idle" /\ pc'[p] # "idle"

\* a step in which the store works: LogData, Commit, or their error
StoreStep ==
    \/ db' # db
    \/ commits' # commits
    \/ (LogMarker \in fl'.b /\ LogMarker \notin fl.b)
    \/ panicked' # panicked

\* a step that ends a receive from a channel (line 185)
WaitStep == \E p \in Procs : pc[p] = "wait" /\ pc'[p] # "wait"

\* C18: no critical section of the engine lock contains a store call or a
\* receive from a channel; a caller takes the engine lock only outside f(),
\* where it holds no key lock; and every key lock held belongs to a caller
\* inside f(), so none is held by a caller that snapshots or waits.
LockDiscipline ==
    /\ [][MuStep => (~StoreStep /\ ~WaitStep)]_vars
    /\ [][\A p \in Procs :
             (MuStep /\ (pc'[p] # pc[p] \/ wdone'[p] = CurChan)) =>
                 (pc[p] # "run" /\ p \notin Holders)]_vars
    /\ [](\A s \in Shards :
             kmu[s] \subseteq {KidOf[key[p]] : p \in Holders})
    /\ [](\A p \in Procs :
             (pc[p] \in {"snapshot", "wait"} /\ Len(key[p]) > 0) =>
                 (\/ KidOf[key[p]] \notin kmu[ShardOf[KidOf[key[p]]]]
                  \/ \E q \in Holders : q # p /\ key[q] = key[p]))

\* C18 witness: a commit is in progress while one caller waits on the
\* channel that Flush took and another runs its mutator under the key the
\* first has released.
WaitingWithoutKeyLock ==
    \E p, q \in Procs :
        /\ flpc = "commit"
        /\ pc[p] = "wait"
        /\ wdone[p] = FlushChan
        /\ pc[q] = "run"
        /\ Len(key[p]) > 0
        /\ key[q] = key[p]

\* C19: for two calls on the same key, the one whose mutator ran first
\* (it took the key lock first) has its writes on disk whenever the writes of
\* the other are on disk.
DurabilityFollowsMutatorOrder ==
    \A i, j \in 1..Len(ran) :
        (/\ i < j
         /\ ran[i][2] = ran[j][2]
         /\ WritesOf(ran[j][1]) # {}
         /\ WritesOf(ran[j][1]) \subseteq db) =>
            WritesOf(ran[i][1]) \subseteq db

\* C20: a call holds a channel once: it reads Store.done, which is open,
\* after its mutator returned nil and appended its last write; that channel
\* is taken by a later rotation and closed by the close step of that Flush,
\* and only then does the call leave its wait and return nil.
WaitSpansGenerationClose ==
    /\ [][\A p \in Procs :
             wdone'[p] # wdone[p] =>
                 \/ /\ wdone[p] = NoChan /\ wdone'[p] = CurChan
                    /\ pc[p] = "snapshot" /\ pc'[p] = "wait"
                    /\ fret[p] = Nil
                 \/ /\ wdone[p] = CurChan /\ wdone'[p] = FlushChan
                    /\ RotationStep
                 \/ /\ wdone[p] = FlushChan /\ wdone'[p] = ClosedChan
                    /\ CloseStep
                 \/ /\ wdone[p] = ClosedChan /\ wdone'[p] = NoChan
                    /\ pc[p] = "wait" /\ pc'[p] = "deferNil"]_vars
    /\ [][\A p \in Procs :
             (pc[p] = "wait" /\ pc'[p] # "wait") =>
                 (wdone[p] = ClosedChan /\ pc'[p] = "deferNil")]_vars
    /\ [][\A p \in Procs :
             pc[p] \in {"wait", "deferNil", "deferErr", "returned"} =>
                 (pc'[p] # "snapshot" /\ wrote'[p] = wrote[p])]_vars
    /\ [][\A p \in Procs :
             pc[p] = "snapshot" => wrote'[p] = wrote[p]]_vars
    /\ [](\A p \in Procs :
             (pc[p] = "deferNil" \/ result[p] = Nil) =>
                 (fret[p] = Nil /\ wdone[p] = NoChan /\ p \in admitted))

\* C20 witness: one call has returned nil after its wait while another
\* waits on the channel a later Flush has taken.
ReturnedAfterClose ==
    \E p, q \in Procs :
        /\ result[p] = Nil
        /\ wrote[p] > 0
        /\ wdone[q] = FlushChan
        /\ wrote[q] > 0

=============================================================================
